---- MODULE Spec2Model ----
(***************************************************************************)
(* Model of the hierarchical mini-batch loader of neural_sp:               *)
(*   - Dataset.__init__   (examples/swbd/data/load_dataset.py): reads the  *)
(*     manifest, filters, truncates and sorts it into self.df / self.rest; *)
(*   - DatasetBase.make_batch (utils/dataset/loader_hierarchical.py):      *)
(*     pads features and the two label sequences of an id subset;          *)
(*   - TransformerEncoder (neural_sp/models/seq2seq/encoders/              *)
(*     transformer.py): the widths of its layers and of what forward       *)
(*     returns.                                                            *)
(* Python strings are sequences of one-character strings, so that          *)
(* str.split, int(), the `in` substring test, basename and string          *)
(* comparison are computed rather than assumed.                            *)
(***************************************************************************)
EXTENDS Integers, Sequences, FiniteSets, TLC

VARIABLES
    pc,            \* "new" before Dataset.__init__ has run, "ready" after it,
                   \* "none" where there is no dataset
    manifest,      \* rows of the csv manifest(s) and the feature files they name
    model_type, data_type, label_type,
    splice, num_stack, num_skip,
    sort_utt, reverse, save_format,
    is_test,       \* self.is_test
    df,            \* self.df: rows (with their index label id) in sorted order
    df_sub,        \* self.df_sub: the sub-task table
    rest,          \* self.rest: set of index labels
    input_size,    \* <<>> while the attribute is absent, <<n>> once cached
    data_indices,  \* argument of the last make_batch call
    ret,           \* outcome of the last make_batch call
    prev,          \* outcome of the call before the last, made with the same argument
    cached,        \* hasattr(self, 'input_size') at line 63 of these calls, in order
    enc_args,      \* arguments of TransformerEncoder.__init__
    enc            \* the TransformerEncoder object and the outcome of __init__

vars == <<pc, manifest, model_type, data_type, label_type, splice, num_stack,
          num_skip, sort_utt, reverse, save_format, is_test, df, df_sub, rest,
          input_size, data_indices, ret, prev, cached, enc_args, enc>>

config == <<model_type, data_type, label_type, sort_utt, reverse, save_format>>

corpus == <<manifest, is_test, df, df_sub, rest>>

again == <<prev, cached>>

encoder == <<enc_args, enc>>

----------------------------------------------------------------------------
(* Bounds of the model *)

\* rows of the manifest a batch specification starts from
NumUtt == 3
\* longest id subset handed to make_batch
MaxBatch == 2
\* largest num_stack, num_skip and splice tried
MaxStack == 2
MaxSkip == 2
MaxSplice == 2
\* width of one raw feature frame in the feature files
RawDim == 1
\* rows of the manifest a construction specification starts from
NumUttCorpus == 2
\* largest input_dim of a TransformerEncoder
MaxInputDim == 2
\* largest d_model and last_proj_dim of a TransformerEncoder
MaxDModel == 4

----------------------------------------------------------------------------
(* Strings *)

Min(a, b) == IF a <= b THEN a ELSE b

Max(a, b) == IF a >= b THEN a ELSE b

MaxOf(S) == CHOOSE x \in S : \A y \in S : y <= x

CeilDiv(a, b) == (a + b - 1) \div b

\* the characters used, in ASCII order
Alphabet == <<" ", ".", "/", "0", "1", "2", "3", "4", "5", "6", "7", "8", "9",
              "_", "a", "b", "c", "d", "e", "f", "h", "i", "l", "n", "o", "p",
              "q", "r", "s", "t", "u", "v", "w", "y">>

Ord(c) == CHOOSE k \in 1..Len(Alphabet) : Alphabet[k] = c

Digits == {"0", "1", "2", "3", "4", "5", "6", "7", "8", "9"}

DigitVal(c) == Ord(c) - Ord("0")

\* s < t for Python str
StrLess(s, t) ==
    \E k \in 1..(Len(t)) :
        /\ k <= Len(s) + 1
        /\ \A j \in 1..(k - 1) : s[j] = t[j]
        /\ (k = Len(s) + 1 \/ Ord(s[k]) < Ord(t[k]))

\* `sub in s` for Python str
IsSubstr(sub, s) ==
    \E k \in 0..(Len(s) - Len(sub)) : SubSeq(s, k + 1, k + Len(sub)) = sub

\* s.split(sep) for a one-character separator: never empty, keeps empty fields
RECURSIVE Split(_, _)
Split(s, sep) ==
    IF \A k \in 1..Len(s) : s[k] /= sep
    THEN <<s>>
    ELSE LET k == CHOOSE i \in 1..Len(s) :
                      s[i] = sep /\ \A j \in 1..(i - 1) : s[j] /= sep
         IN  <<SubSeq(s, 1, k - 1)>> \o Split(SubSeq(s, k + 1, Len(s)), sep)

\* s.strip() for blanks
RECURSIVE Strip(_)
Strip(s) ==
    IF s = <<>> THEN s
    ELSE IF s[1] = " " THEN Strip(Tail(s))
    ELSE IF s[Len(s)] = " " THEN Strip(SubSeq(s, 1, Len(s) - 1))
    ELSE s

\* int(s) succeeds: blanks around a non-empty run of digits
IsIntLiteral(s) ==
    LET u == Strip(s) IN u /= <<>> /\ \A k \in 1..Len(u) : u[k] \in Digits

\* int(s) when it succeeds
RECURSIVE DigitsVal(_)
DigitsVal(u) ==
    IF u = <<>> THEN 0
    ELSE 10 * DigitsVal(SubSeq(u, 1, Len(u) - 1)) + DigitVal(u[Len(u)])

IntOf(s) == DigitsVal(Strip(s))

\* os.path.basename(path)
RECURSIVE basename(_)
basename(path) ==
    IF \A k \in 1..Len(path) : path[k] /= "/" THEN path
    ELSE basename(Tail(path))

\* join of tokens with single blanks
RECURSIVE Join(_)
Join(toks) ==
    IF toks = <<>> THEN <<>>
    ELSE IF Len(toks) = 1 THEN toks[1]
    ELSE toks[1] \o <<" ">> \o Join(Tail(toks))

\* n copies of the token tok, blank separated
Repeat(tok, n) == Join([k \in 1..n |-> tok])

----------------------------------------------------------------------------
(* Dataset.__init__: the Corpus Index *)

eval_str == <<"e", "v", "a", "l">>

word_str == <<"w", "o", "r", "d">>

dev_str == <<"d", "e", "v">>

train_str == <<"t", "r", "a", "i", "n">>

eval2000_str == <<"e", "v", "a", "l", "2", "0", "0", "0">>

test_clean_str == <<"t", "e", "s", "t", "_", "c", "l", "e", "a", "n">>

test_other_str == <<"t", "e", "s", "t", "_", "o", "t", "h", "e", "r">>

word_freq1_str == <<"w", "o", "r", "d", "_", "f", "r", "e", "q", "1">>

character_str == <<"c", "h", "a", "r", "a", "c", "t", "e", "r">>

\* token count at or below which a long word-level utterance is removed
ShortWord == 3
\* the same for the other label types
ShortOther == 24
\* frame count from which a short utterance is removed
LongFrames == 1000
\* frame count above which every utterance is removed
FrameCeiling == 1580
\* rows kept of the dev split
DevLimit == 4000

\* self.is_test = True if 'eval' in data_type else False
IsTest(dt) == IsSubstr(eval_str, dt)

\* pd.read_csv(...).loc[:, ['frame_num', 'input_path', 'transcript']]: the index
\* label of a row is its position in the manifest (counted from 1 here)
read_csv(m) ==
    [k \in 1..Len(m) |->
        [id |-> k, frame_num |-> m[k].frame_num, input_path |-> m[k].input_path,
         transcript |-> m[k].transcript]]

\* an empty field of the csv: read_csv gives NaN, a float, for it, so that no
\* transcript of a table is the empty str
IsNaN(s) == s = <<>>

\* as ShortAndLong, short or long: two independent filters
ShortOrLong(x, lt) ==
    IF IsSubstr(word_str, lt)
    THEN Len(Split(x.transcript, " ")) <= ShortWord \/ x.frame_num >= LongFrames
    ELSE Len(Split(x.transcript, " ")) <= ShortOther \/ x.frame_num >= LongFrames

\* the lambda of line 88 / 91, negated: the row is short and long at once
ShortAndLong(x, lt) ==
    IF IsSubstr(word_str, lt)
    THEN Len(Split(x.transcript, " ")) <= ShortWord /\ x.frame_num >= LongFrames
    ELSE Len(Split(x.transcript, " ")) <= ShortOther /\ x.frame_num >= LongFrames

\* the lambda of line 93
BelowCeiling(x) == x.frame_num <= FrameCeiling

\* df[:4000] for the dev split
Truncate(d, dt) == IF dt = dev_str THEN SubSeq(d, 1, Min(Len(d), DevLimit)) ELSE d

\* lines 84-96: remove inappropriate utterances
Restrict(d, dt, lt) ==
    IF ~IsTest(dt)
    THEN LET notShortLong(x) == ~ShortAndLong(x, lt)
             d1 == SelectSeq(d, notShortLong)
             d2 == SelectSeq(d1, BelowCeiling)
         IN  Truncate(d2, dt)
    ELSE d

Perms(d) ==
    LET n == Len(d)
        P == {p \in [1..n -> 1..n] : \A a, b \in 1..n : a /= b => p[a] /= p[b]}
    IN  {[k \in 1..n |-> d[p[k]]] : p \in P}

\* as InOrder, reverse ignored
InOrder_Ascending(x, y, su, rv) ==
    IF su THEN x.frame_num <= y.frame_num
    ELSE ~StrLess(y.input_path, x.input_path)

\* the order sort_values asks for between two adjacent rows
InOrder(x, y, su, rv) ==
    IF su
    THEN (IF ~rv THEN x.frame_num <= y.frame_num ELSE x.frame_num >= y.frame_num)
    ELSE ~StrLess(y.input_path, x.input_path)

\* lines 98-102: df.sort_values(by=..., ascending=...) with the default
\* kind='quicksort', which is not a stable sort: every arrangement of the rows
\* that is ordered by the key is a possible result
sort_values(d, su, rv) ==
    {s \in Perms(d) : \A k \in 1..(Len(s) - 1) : InOrder(s[k], s[k + 1], su, rv)}

\* the sub-task table: the row-aligned second manifest, holding the rows of df
SubTable(m, d) ==
    [k \in 1..Len(d) |->
        [id |-> d[k].id, frame_num |-> d[k].frame_num,
         input_path |-> d[k].input_path,
         transcript |-> m[d[k].id].transcript_sub]]

Index(d) == {d[k].id : k \in 1..Len(d)}

\* Dataset.__init__ on the constructor arguments held in the configuration
Construct ==
    /\ pc = "new"
    /\ pc' = "ready"
    /\ is_test' = IsTest(data_type)
    /\ df' \in sort_values(Restrict(read_csv(manifest), data_type, label_type),
                           sort_utt, reverse)
    /\ df_sub' = SubTable(manifest, df')
    /\ rest' = Index(df')
    /\ UNCHANGED <<manifest, config, splice, num_stack, num_skip, input_size,
                   data_indices, ret, again, encoder>>

----------------------------------------------------------------------------
(* Vocabulary indices, feature files and the frame transform *)

\* the indices the two vocabularies reserve
sos_index == 1
eos_index == 2
pad_value == 0
sos_index_sub == 3
eos_index_sub == 4
pad_value_sub == 6

\* An array of shape [n, w] is a record: a[t][f] is its entry (t, f)
Zeros(w) == [f \in 1..w |-> 0]

RECURSIVE Concat(_)
Concat(rows) == IF rows = <<>> THEN <<>> ELSE rows[1] \o Concat(Tail(rows))

\* the manifest row whose feature file is path
FileOf(path) == CHOOSE k \in 1..Len(manifest) : manifest[k].input_path = path

\* load_npy / load_htk: the feature file, feat_len frames of RawDim values,
\* none of them zero
load_npy(path) ==
    LET k == FileOf(path)
    IN  [n |-> manifest[k].feat_len, w |-> RawDim,
         a |-> [t \in 1..manifest[k].feat_len |->
                   [f \in 1..RawDim |-> 100 * k + 10 * t + f]]]

\* stack_frame: groups of num_stack frames every num_skip frames, the last
\* groups zero padded; ceil(T / num_skip) rows
stack_frame(x, ns, nk) ==
    LET n2 == CeilDiv(x.n, nk)
        frame(j) == IF j <= x.n THEN x.a[j] ELSE Zeros(x.w)
    IN  [n |-> n2, w |-> x.w * ns,
         a |-> [t \in 1..n2 |->
                   Concat([k \in 1..ns |-> frame((t - 1) * nk + k)])]]

\* do_splice: a window of sp frames around each frame, clamped at both ends
do_splice(x, sp, ns) ==
    LET clamp(j) == Max(1, Min(x.n, j))
    IN  [n |-> x.n, w |-> x.w * sp,
         a |-> [t \in 1..x.n |->
                   Concat([j \in 1..sp |->
                              x.a[clamp(t - ((sp - 1) \div 2) + j - 1)]])]]

----------------------------------------------------------------------------
(* DatasetBase.make_batch *)

\* as Loc, the id taken for a position of the table
Loc_ByPosition(d, id) == d[id]

\* self.df[col][id]
Loc(d, id) == d[CHOOSE k \in 1..Len(d) : d[k].id = id]

NoBatch ==
    [inputs |-> <<>>, labels |-> <<>>, labels_sub |-> <<>>,
     inputs_seq_len |-> <<>>, labels_seq_len |-> <<>>,
     labels_seq_len_sub |-> <<>>, input_names |-> <<>>]

\* width is the last dimension of the inputs tensor of line 85, 0 before it
NotCalled ==
    [status |-> "none", error |-> "", line |-> 0, width |-> 0, batch |-> NoBatch]

\* as Raise, the error swallowed and an empty batch returned
Raise_Swallowed(err, ln, F) ==
    [status |-> "ok", error |-> "", line |-> 0, width |-> F, batch |-> NoBatch]

Raise(err, ln, F) ==
    [status |-> "raise", error |-> err, line |-> ln, width |-> F, batch |-> NoBatch]

FormatKnown == save_format \in {"numpy", "htk"}

\* as InputSize, a cached width multiplied by num_stack once more
InputSize_Restacked(ids) ==
    IF input_size /= <<>> THEN <<input_size[1] * num_stack>>
    ELSE IF FormatKnown /\ ids /= <<>>
    THEN <<load_npy(Loc(df, ids[1]).input_path).w * num_stack * splice>>
    ELSE <<>>

\* lines 63-71: the width cached on the first call
InputSize(ids) ==
    IF input_size /= <<>> THEN input_size
    ELSE IF FormatKnown /\ ids /= <<>>
    THEN <<load_npy(Loc(df, ids[1]).input_path).w * num_stack * splice>>
    ELSE <<>>

\* as MaxFrameNum, the division by num_skip forgotten
MaxFrameNum_NoSkip(ids) ==
    MaxOf({Loc(df, ids[i]).frame_num : i \in 1..Len(ids)})

\* lines 74-75
MaxFrameNum(ids) ==
    CeilDiv(MaxOf({Loc(df, ids[i]).frame_num : i \in 1..Len(ids)}), num_skip)

\* as MaxSeqLen, the two slots of <SOS> and <EOS> not added
MaxSeqLen_NoSosEos(strs) == MaxOf({Len(Split(strs[i], " ")) : i \in 1..Len(strs)})

\* lines 78-81
MaxSeqLen(strs) == MaxOf({Len(Split(strs[i], " ")) : i \in 1..Len(strs)}) + 2

\* width of the inputs tensor, line 86
InputsWidth(isz) == isz * splice

\* as PadRow, both label tensors filled with the pad index of the main task
PadRow_MainPad(pad, L) == [k \in 1..L |-> pad_value]

\* lines 88-91: one row of a label tensor
PadRow(pad, L) == [k \in 1..L |-> pad]

\* row[lo:hi] = vals of numpy, positions counted from 0
SliceAssign(row, lo, hi, vals) ==
    LET a == Min(lo, Len(row))
        b == Max(a, Min(hi, Len(row)))
        ok == Len(vals) = b - a \/ Len(vals) = 1
    IN  [ok |-> ok,
         row |-> IF ok
                 THEN [k \in 1..Len(row) |->
                          IF k > a /\ k <= b
                          THEN (IF Len(vals) = 1 THEN vals[1] ELSE vals[k - a])
                          ELSE row[k]]
                 ELSE row]

\* row[at] = val of numpy, position counted from 0
ItemAssign(row, at, val) ==
    [ok |-> at < Len(row),
     row |-> IF at < Len(row) THEN [row EXCEPT ![at + 1] = val] ELSE row]

\* lines 109-114: the transformed features of one utterance
Transformed(path) ==
    do_splice(stack_frame(load_npy(path), num_stack, num_skip), splice, num_stack)

\* line 116: inputs[i_batch, :frame_num, :] = data_i
InputsWrite(x, tmax, F) ==
    LET r == Min(x.n, tmax)
        ok == (x.n = r \/ x.n = 1) /\ (x.w = F \/ x.w = 1)
        src(t) == x.a[IF x.n = 1 THEN 1 ELSE t]
    IN  [ok |-> ok,
         row |-> IF ok
                 THEN [t \in 1..tmax |->
                          IF t <= r
                          THEN [f \in 1..F |-> src(t)[IF x.w = 1 THEN 1 ELSE f]]
                          ELSE Zeros(F)]
                 ELSE <<>>]

\* list(map(int, s.split(' ')))
Tokens(s) == Split(s, " ")

AllInts(s) == LET tk == Tokens(s) IN \A k \in 1..Len(tk) : IsIntLiteral(tk[k])

Indices(s) == LET tk == Tokens(s) IN [k \in 1..Len(tk) |-> IntOf(tk[k])]

\* lines 119-121: labels[i_batch, 0] = transcript, into an integer array
TestLabels(s, pad, L) ==
    IF IsIntLiteral(s)
    THEN [ok |-> TRUE, row |-> ItemAssign(PadRow(pad, L), 0, IntOf(s)).row, len |-> 0]
    ELSE [ok |-> FALSE, row |-> <<>>, len |-> 0]

\* as AttentionLabels, the length counting <SOS> only
AttentionLabels_ShortLen(ind, sos, eos, pad, L) ==
    LET r1 == ItemAssign(PadRow(pad, L), 0, sos)
        r2 == SliceAssign(r1.row, 1, Len(ind) + 1, ind)
        r3 == ItemAssign(r2.row, Len(ind) + 1, eos)
    IN  [ok |-> r1.ok /\ r2.ok /\ r3.ok, row |-> r3.row, len |-> Len(ind) + 1]

\* lines 130-133 and 136-139
AttentionLabels(ind, sos, eos, pad, L) ==
    LET r1 == ItemAssign(PadRow(pad, L), 0, sos)
        r2 == SliceAssign(r1.row, 1, Len(ind) + 1, ind)
        r3 == ItemAssign(r2.row, Len(ind) + 1, eos)
    IN  [ok |-> r1.ok /\ r2.ok /\ r3.ok, row |-> r3.row, len |-> Len(ind) + 2]

\* lines 141-142 and 144-146
CtcLabels(ind, pad, L) ==
    LET r1 == SliceAssign(PadRow(pad, L), 0, Len(ind), ind)
    IN  [ok |-> r1.ok, row |-> r1.row, len |-> Len(ind)]

\* input_names, lines 95-97
InputName(path) == Split(basename(path), ".")[1]

\* one pass of the loop of lines 100-148 for the utterance id
RowOutcome(id, tmax, F, L, Lsub) ==
    LET x == Transformed(Loc(df, id).input_path)
        w == InputsWrite(x, tmax, F)
        s == Loc(df, id).transcript
        ssub == Loc(df_sub, id).transcript
        fail(err, ln) ==
            [error |-> err, line |-> ln, inputs |-> <<>>, len |-> 0,
             lab |-> [ok |-> FALSE, row |-> <<>>, len |-> 0],
             sub |-> [ok |-> FALSE, row |-> <<>>, len |-> 0]]
        done(lab, sub) ==
            IF ~lab.ok THEN fail("ValueError", 131)
            ELSE IF ~sub.ok THEN fail("ValueError", 137)
            ELSE [error |-> "", line |-> 0, inputs |-> w.row, len |-> x.n,
                  lab |-> lab, sub |-> sub]
    IN  IF ~FormatKnown THEN fail("TypeError", 107)
        ELSE IF ~w.ok THEN fail("ValueError", 116)
        ELSE IF is_test
        THEN (IF ~IsIntLiteral(s) THEN fail("ValueError", 119)
              ELSE IF ~IsIntLiteral(ssub) THEN fail("ValueError", 120)
              ELSE done(TestLabels(s, pad_value, L),
                        TestLabels(ssub, pad_value_sub, Lsub)))
        ELSE IF ~AllInts(s) THEN fail("ValueError", 124)
        ELSE IF ~AllInts(ssub) THEN fail("ValueError", 125)
        ELSE IF model_type = "hierarchical_attention"
        THEN done(AttentionLabels(Indices(s), sos_index, eos_index, pad_value, L),
                  AttentionLabels(Indices(ssub), sos_index_sub, eos_index_sub,
                                  pad_value_sub, Lsub))
        ELSE IF model_type = "hierarchical_ctc"
        THEN done(CtcLabels(Indices(s), pad_value, L),
                  CtcLabels(Indices(ssub), pad_value_sub, Lsub))
        ELSE fail("TypeError", 148)

\* make_batch(data_indices): what the call returns or raises
make_batch(ids) ==
    LET B == Len(ids)
        isz == InputSize(ids)
    IN  IF input_size = <<>> /\ ~FormatKnown THEN Raise("TypeError", 69, 0)
        ELSE IF input_size = <<>> /\ B = 0 THEN Raise("IndexError", 65, 0)
        ELSE IF B = 0 THEN Raise("ValueError", 74, 0)
        ELSE IF \E i \in 1..B : IsNaN(Loc(df, ids[i]).transcript)
        THEN Raise("AttributeError", 79, 0)
        ELSE IF \E i \in 1..B : IsNaN(Loc(df_sub, ids[i]).transcript)
        THEN Raise("AttributeError", 81, 0)
        ELSE
        LET tmax == MaxFrameNum(ids)
            L == MaxSeqLen([i \in 1..B |-> Loc(df, ids[i]).transcript])
            Lsub == MaxSeqLen([i \in 1..B |-> Loc(df_sub, ids[i]).transcript])
            F == InputsWidth(isz[1])
            rows == [i \in 1..B |-> RowOutcome(ids[i], tmax, F, L, Lsub)]
            bad == {i \in 1..B : rows[i].error /= ""}
        IN  IF bad /= {}
            THEN LET i == CHOOSE j \in bad : \A k \in bad : j <= k
                 IN  Raise(rows[i].error, rows[i].line, F)
            ELSE [status |-> "ok", error |-> "", line |-> 0, width |-> F,
                  batch |->
                    [inputs |-> [i \in 1..B |-> rows[i].inputs],
                     labels |-> [i \in 1..B |-> rows[i].lab.row],
                     labels_sub |-> [i \in 1..B |-> rows[i].sub.row],
                     inputs_seq_len |-> [i \in 1..B |-> rows[i].len],
                     labels_seq_len |-> [i \in 1..B |-> rows[i].lab.len],
                     labels_seq_len_sub |-> [i \in 1..B |-> rows[i].sub.len],
                     input_names |->
                        [i \in 1..B |-> InputName(Loc(df, ids[i]).input_path)]]]

\* id subsets a caller may pass: distinct index labels of self.rest, in any order
Subsets ==
    UNION {{q \in [1..n -> rest] : \A a, b \in 1..n : a /= b => q[a] /= q[b]} :
              n \in 0..MaxBatch}

\* as MakeBatch, the ids of the subset taken out of self.rest
MakeBatch_PopsRest ==
    /\ pc = "ready"
    /\ ret = NotCalled
    /\ \E ids \in Subsets :
        /\ data_indices' = ids
        /\ ret' = make_batch(ids)
        /\ input_size' = InputSize(ids)
        /\ rest' = rest \ {ids[i] : i \in 1..Len(ids)}
    /\ prev' = NotCalled
    /\ cached' = <<input_size /= <<>>>>
    /\ UNCHANGED <<pc, manifest, is_test, df, df_sub, config, splice, num_stack,
                   num_skip, encoder>>

\* a call of make_batch by the driver, which holds no batch at that moment
MakeBatch ==
    /\ pc = "ready"
    /\ ret = NotCalled
    /\ \E ids \in Subsets :
        /\ data_indices' = ids
        /\ ret' = make_batch(ids)
        /\ input_size' = InputSize(ids)
    /\ prev' = NotCalled
    /\ cached' = <<input_size /= <<>>>>
    /\ UNCHANGED <<pc, corpus, config, splice, num_stack, num_skip, encoder>>

\* the driver calls make_batch once more with the argument of the last call
MakeBatchAgain ==
    /\ pc = "ready"
    /\ ret /= NotCalled
    /\ Len(cached) = 1
    /\ ret' = make_batch(data_indices)
    /\ input_size' = InputSize(data_indices)
    /\ prev' = ret
    /\ cached' = Append(cached, input_size /= <<>>)
    /\ UNCHANGED <<pc, corpus, config, splice, num_stack, num_skip, data_indices,
                   encoder>>

\* the driver consumes the batch, or handles the exception, of the last call
Consume ==
    /\ pc = "ready"
    /\ ret /= NotCalled
    /\ ret' = NotCalled
    /\ data_indices' = <<>>
    /\ prev' = NotCalled
    /\ cached' = <<>>
    /\ UNCHANGED <<pc, corpus, config, splice, num_stack, num_skip, input_size,
                   encoder>>

\* self.num_stack / self.splice assigned between two calls
SetStackSplice ==
    /\ pc = "ready"
    /\ ret = NotCalled
    /\ \E ns \in 1..MaxStack, sp \in 1..MaxSplice :
        /\ <<ns, sp>> /= <<num_stack, splice>>
        /\ num_stack' = ns
        /\ splice' = sp
    /\ UNCHANGED <<pc, corpus, config, num_skip, input_size, data_indices, ret,
                   again, encoder>>

----------------------------------------------------------------------------
(* TransformerEncoder, built without CNN layers (conv_channels = 0) *)

NoArgs ==
    [input_dim |-> 0, n_stacks |-> 0, n_splices |-> 0, d_model |-> 0,
     last_proj_dim |-> 0]

\* a layer is <<>> (None) or <<l>>
NoEncoder ==
    [status |-> "none", error |-> "", line |-> 0, d_model |-> 0, embed |-> <<>>,
     bridge |-> <<>>, output_dim |-> 0]

\* LinearND(in_size, out_size): maps a tensor [B, T, in_size] to [B, T, out_size]
LinearND(i, o) == [in_size |-> i, out_size |-> o]

\* the last dimension of layer(xs) for xs of last dimension w; -1 when the
\* sizes do not match and the call raises
Apply(layer, w) == IF w = layer.in_size THEN layer.out_size ELSE -1

\* TransformerEncoder.__init__(a): the attributes it assigns. channels is []
\* (line 98), so that line 118 is taken. Line 143 calls
\* self.reset_parameters() without the param_init that line 149 requires: the
\* constructor ends in a TypeError after the layers are assigned
TransformerEncoder(a) ==
    LET od == a.input_dim * a.n_splices * a.n_stacks
        proj == a.last_proj_dim /= od
    IN  [status |-> "raise", error |-> "TypeError", line |-> 143,
         d_model |-> a.d_model,
         embed |-> <<LinearND(od, a.d_model)>>,
         bridge |-> IF proj THEN <<LinearND(od, a.last_proj_dim)>> ELSE <<>>,
         output_dim |-> IF proj THEN a.last_proj_dim ELSE a.d_model]

\* forward(xs, xlens, task) on the attributes e for xs of last dimension w: the
\* last dimension of eouts['ys']['xs'], or the line that raises
forward(e, w) ==
    LET w1 == Apply(e.embed[1], w)
        w2 == IF e.bridge /= <<>> /\ w1 /= -1 THEN Apply(e.bridge[1], w1) ELSE w1
    IN  IF w1 = -1 THEN [status |-> "raise", line |-> 187, width |-> 0]
        ELSE IF w1 /= e.d_model THEN [status |-> "raise", line |-> 195, width |-> 0]
        ELSE IF w2 = -1 THEN [status |-> "raise", line |-> 203, width |-> 0]
        ELSE [status |-> "ok", line |-> 0, width |-> w2]

\* a call of the constructor
NewEncoder ==
    /\ pc = "none"
    /\ enc = NoEncoder
    /\ enc' = TransformerEncoder(enc_args)
    /\ UNCHANGED <<pc, corpus, config, splice, num_stack, num_skip, input_size,
                   data_indices, ret, again, enc_args>>

----------------------------------------------------------------------------
(* Manifests and specifications *)

DigitChar(n) == Alphabet[Ord("0") + n]

\* the feature file of the manifest row k of n: the paths fall as k rises
PathOf(k, n) ==
    <<"d", "/", "u", DigitChar(n + 1 - k), ".", "n", "p", "y">>

t_592 == <<"5", " ", "9", " ", "2">>

t_5925 == <<"5", " ", "9", " ", "2", " ", "5">>

\* utterances of a manifest: frame_num of the manifest, the true length of the
\* feature file and the two transcripts. The third holds raw text, the fourth
\* and the fifth a frame_num that is not the length of the feature file
Utterances ==
    << [frame_num |-> 3, feat_len |-> 3, transcript |-> t_592,
        transcript_sub |-> t_5925],
       [frame_num |-> 1, feat_len |-> 1, transcript |-> <<"9">>,
        transcript_sub |-> <<"2">>],
       [frame_num |-> 2, feat_len |-> 2, transcript |-> <<"a", " ", "b">>,
        transcript_sub |-> <<"a">>],
       [frame_num |-> 4, feat_len |-> 2, transcript |-> <<"2">>,
        transcript_sub |-> <<"5", " ", "9">>],
       [frame_num |-> 5, feat_len |-> 6, transcript |-> <<"5", " ", "9">>,
        transcript_sub |-> <<"9">>],
       [frame_num |-> 6, feat_len |-> 6, transcript |-> <<"2", "5">>,
        transcript_sub |-> <<"2", " ", "2", " ", "2">>] >>

MakeManifest(u, n) ==
    [k \in 1..n |->
        [frame_num |-> u[k].frame_num, input_path |-> PathOf(k, n),
         transcript |-> u[k].transcript,
         transcript_sub |-> u[k].transcript_sub,
         feat_len |-> u[k].feat_len]]

\* the manifest of the first NumUtt utterances
BatchManifests == {MakeManifest(Utterances, Min(NumUtt, Len(Utterances)))}

\* utterances at the edge: one whose feature file holds no frame, one whose
\* sub-task transcript is an empty field, a plain one, and one whose main
\* transcript is an empty field
EdgeUtterances ==
    << [frame_num |-> 0, feat_len |-> 0, transcript |-> <<"9">>,
        transcript_sub |-> <<"2">>],
       [frame_num |-> 2, feat_len |-> 2, transcript |-> <<"5", " ", "9">>,
        transcript_sub |-> <<>>],
       [frame_num |-> 1, feat_len |-> 1, transcript |-> <<"2">>,
        transcript_sub |-> <<"5">>],
       [frame_num |-> 1, feat_len |-> 1, transcript |-> <<>>,
        transcript_sub |-> <<"5">>] >>

\* the manifest of the utterances at the edge. Lines 88 and 91 call
\* x['transcript'].split on every row of a split that is not an evaluation
\* split, so that only an evaluation split is constructed with a row whose main
\* transcript is NaN
EdgeManifests(dt) ==
    {MakeManifest(EdgeUtterances, IF IsTest(dt) THEN 4 ELSE 3)}

ModelTypes == {"hierarchical_attention", "hierarchical_ctc", "attention"}

\* <<sort_utt, reverse>>
SortArgs == {<<FALSE, FALSE>>, <<TRUE, FALSE>>, <<TRUE, TRUE>>}

BatchSortArgs == {<<FALSE, FALSE>>, <<TRUE, TRUE>>}

\* a dataset as Dataset.__init__ leaves it
Init ==
    /\ pc = "ready"
    /\ model_type \in ModelTypes
    /\ data_type \in {train_str, eval2000_str}
    /\ manifest \in BatchManifests \cup EdgeManifests(data_type)
    /\ label_type = word_freq1_str
    /\ splice \in 1..MaxSplice
    /\ num_stack \in 1..MaxStack
    /\ num_skip \in 1..MaxSkip
    /\ \E a \in BatchSortArgs : sort_utt = a[1] /\ reverse = a[2]
    /\ save_format = "numpy"
    /\ is_test = IsTest(data_type)
    /\ df \in sort_values(Restrict(read_csv(manifest), data_type, label_type),
                          sort_utt, reverse)
    /\ df_sub = SubTable(manifest, df)
    /\ rest = Index(df)
    /\ input_size = <<>>
    /\ data_indices = <<>>
    /\ ret = NotCalled
    /\ prev = NotCalled
    /\ cached = <<>>
    /\ enc_args = NoArgs
    /\ enc = NoEncoder

Next == MakeBatch \/ MakeBatchAgain \/ Consume \/ SetStackSplice

Spec == Init /\ [][Next]_vars

\* frame counts and token counts around the thresholds of the filter
CorpusFrames == {999, 1000, 1200, 1580, 1581, 1600}

CorpusTokens == {2, 3, 4, 24, 25}

CorpusUtterances ==
    {[frame_num |-> fn, feat_len |-> fn, transcript |-> Repeat(<<"5">>, n),
      transcript_sub |-> <<"9">>] : fn \in CorpusFrames, n \in CorpusTokens}

\* the utterances the rows after the first are taken from
CorpusFillers ==
    {u \in CorpusUtterances :
        /\ u.frame_num \in {999, 1200, 1600}
        /\ Len(Split(u.transcript, " ")) \in {4, 24}}

\* the first row is any utterance, the rows after it are fillers
CorpusManifests ==
    {MakeManifest(u, NumUttCorpus) :
        u \in {v \in [1..NumUttCorpus -> CorpusUtterances] :
                  \A k \in 2..NumUttCorpus : v[k] \in CorpusFillers}}

DataTypes == {train_str, dev_str, eval2000_str, test_clean_str, test_other_str}

LabelTypes == {word_freq1_str, character_str}

\* the arguments of Dataset.__init__, before it runs
InitCorpus ==
    /\ pc = "new"
    /\ manifest \in CorpusManifests
    /\ model_type = "hierarchical_attention"
    /\ data_type \in DataTypes
    /\ label_type \in LabelTypes
    /\ splice = 1
    /\ num_stack = 1
    /\ num_skip = 1
    /\ \E a \in SortArgs : sort_utt = a[1] /\ reverse = a[2]
    /\ save_format = "numpy"
    /\ is_test = FALSE
    /\ df = <<>>
    /\ df_sub = <<>>
    /\ rest = {}
    /\ input_size = <<>>
    /\ data_indices = <<>>
    /\ ret = NotCalled
    /\ prev = NotCalled
    /\ cached = <<>>
    /\ enc_args = NoArgs
    /\ enc = NoEncoder

NextCorpus == Construct

SpecCorpus == InitCorpus /\ [][NextCorpus]_vars

\* the arguments of TransformerEncoder.__init__, before it runs; no dataset
InitEncoder ==
    /\ pc = "none"
    /\ manifest = <<>>
    /\ model_type = "hierarchical_attention"
    /\ data_type = train_str
    /\ label_type = word_freq1_str
    /\ splice = 1
    /\ num_stack = 1
    /\ num_skip = 1
    /\ sort_utt = FALSE
    /\ reverse = FALSE
    /\ save_format = "numpy"
    /\ is_test = FALSE
    /\ df = <<>>
    /\ df_sub = <<>>
    /\ rest = {}
    /\ input_size = <<>>
    /\ data_indices = <<>>
    /\ ret = NotCalled
    /\ prev = NotCalled
    /\ cached = <<>>
    /\ enc_args \in [input_dim : 1..MaxInputDim, n_stacks : 1..MaxStack,
                      n_splices : 1..MaxSplice, d_model : 1..MaxDModel,
                      last_proj_dim : 0..MaxDModel]
    /\ enc = NoEncoder

NextEncoder == NewEncoder

SpecEncoder == InitEncoder /\ [][NextEncoder]_vars

----------------------------------------------------------------------------
(* Properties of make_batch *)

Returned == pc = "ready" /\ ret.status = "ok"

BatchRows == 1..Len(data_indices)

\* row i of a label tensor is the pad index from position len on
PaddedFrom(row, len, pad) == \A k \in (len + 1)..Len(row) : row[k] = pad

LabelsPadded ==
    \A i \in BatchRows :
        /\ PaddedFrom(ret.batch.labels[i], ret.batch.labels_seq_len[i], pad_value)
        /\ PaddedFrom(ret.batch.labels_sub[i], ret.batch.labels_seq_len_sub[i],
                      pad_value_sub)

\* C1 as stated: in every mode, every row of a returned batch holds only the
\* pad index of its task from position label_lens[i] on, in labels and in
\* labels_sub
C1_PaddedInEveryMode == Returned => LabelsPadded

\* C1 amended: the same for the batches returned on a split that is not an
\* evaluation split (model types hierarchical_attention and hierarchical_ctc)
C1_PaddedWhenTraining == (Returned /\ ~is_test) => LabelsPadded

\* a returned training batch of two rows, one of them padded in both tensors
C1_Witness ==
    /\ Returned /\ ~is_test /\ Len(data_indices) = 2
    /\ \E i \in BatchRows :
        /\ ret.batch.labels_seq_len[i] < Len(ret.batch.labels[i])
        /\ ret.batch.labels_seq_len_sub[i] < Len(ret.batch.labels_sub[i])

\* the true length of the feature file of the utterance id
TrueLen(id) == manifest[id].feat_len

FrameNumsTrue == \A i \in BatchRows : Loc(df, data_indices[i]).frame_num = TrueLen(data_indices[i])

\* C2: when frame_num of every row of the subset is the true length of its
\* features, a returned batch has input_lens[i] = ceil(T_i / num_skip) <= T_max
\* = ceil(max frame_num / num_skip), and inputs[i, input_lens[i]:, :] is zero
C2_InputLens ==
    (Returned /\ FrameNumsTrue) =>
        LET tmax == CeilDiv(MaxOf({Loc(df, data_indices[i]).frame_num : i \in BatchRows}),
                            num_skip)
        IN  \A i \in BatchRows :
                /\ ret.batch.inputs_seq_len[i] = CeilDiv(TrueLen(data_indices[i]), num_skip)
                /\ ret.batch.inputs_seq_len[i] <= tmax
                /\ Len(ret.batch.inputs[i]) = tmax
                /\ \A t \in (ret.batch.inputs_seq_len[i] + 1)..tmax :
                       \A f \in 1..Len(ret.batch.inputs[i][t]) :
                           ret.batch.inputs[i][t][f] = 0

\* a returned batch of two rows with num_skip = 2, an odd number of frames and
\* a row shorter than T_max
C2_Witness ==
    /\ Returned /\ FrameNumsTrue /\ num_skip = 2 /\ Len(data_indices) = 2
    /\ \E i \in BatchRows : TrueLen(data_indices[i]) = 3
    /\ \E i \in BatchRows : ret.batch.inputs_seq_len[i] < Len(ret.batch.inputs[i])

\* SOS, the tokens of s, EOS at the head of row, and len = n + 2
Framed(row, len, s, sos, eos) ==
    LET tk == Split(s, " ")
        n == Len(tk)
    IN  /\ len = n + 2
        /\ Len(row) >= n + 2
        /\ row[1] = sos
        /\ \A k \in 1..n : row[k + 1] = IntOf(tk[k])
        /\ row[n + 2] = eos

\* the subset holds the one utterance whose transcript is 5 9 2
Only592 ==
    /\ Len(data_indices) = 1
    /\ Loc(df, data_indices[1]).transcript = t_592

\* C3: for hierarchical_attention on a split that is not an evaluation split,
\* row i of a returned batch is SOS, token_1..token_n, EOS with label_lens[i] =
\* n + 2, the sub-task alike with its own indices; the transcript 5 9 2 alone
\* gives the row 1 5 9 2 2 of width 5 and length 5
C3_SosEosFraming ==
    (Returned /\ ~is_test /\ model_type = "hierarchical_attention") =>
        /\ \A i \in BatchRows :
            /\ Framed(ret.batch.labels[i], ret.batch.labels_seq_len[i],
                      Loc(df, data_indices[i]).transcript, sos_index, eos_index)
            /\ Framed(ret.batch.labels_sub[i], ret.batch.labels_seq_len_sub[i],
                      Loc(df_sub, data_indices[i]).transcript,
                      sos_index_sub, eos_index_sub)
        /\ Only592 => /\ ret.batch.labels = << <<1, 5, 9, 2, 2>> >>
                      /\ ret.batch.labels_seq_len = <<5>>

\* the hierarchical_attention batch of the transcript 5 9 2 alone
C3_Witness ==
    /\ Returned /\ ~is_test /\ model_type = "hierarchical_attention"
    /\ Only592
    /\ ret.batch.labels[1][5] = eos_index
    /\ ret.batch.labels_sub[1] = <<3, 5, 9, 2, 5, 4>>

\* token_1..token_n at the head of row, and len = n
Unframed(row, len, s) ==
    LET tk == Split(s, " ")
        n == Len(tk)
    IN  /\ len = n
        /\ Len(row) >= n
        /\ \A k \in 1..n : row[k] = IntOf(tk[k])

CtcRows ==
    \A i \in BatchRows :
        /\ Unframed(ret.batch.labels[i], ret.batch.labels_seq_len[i],
                    Loc(df, data_indices[i]).transcript)
        /\ Unframed(ret.batch.labels_sub[i], ret.batch.labels_seq_len_sub[i],
                    Loc(df_sub, data_indices[i]).transcript)

\* C4 as stated: for hierarchical_ctc on a split that is not an evaluation
\* split, row i of a returned batch starts with token_1..token_n and
\* label_lens[i] = n, the sub-task alike; the transcript 5 9 2 alone gives
\* exactly the row 5 9 2, of width 3
C4_CtcRowOfWidthThree ==
    (Returned /\ ~is_test /\ model_type = "hierarchical_ctc") =>
        /\ CtcRows
        /\ Only592 => /\ ret.batch.labels = << <<5, 9, 2>> >>
                      /\ ret.batch.labels_seq_len = <<3>>

\* C4 amended: the same, but the transcript 5 9 2 alone gives the row
\* 5 9 2 pad pad: the width is n + 2 in this mode too, the length is 3
C4_CtcRowOfWidthFive ==
    (Returned /\ ~is_test /\ model_type = "hierarchical_ctc") =>
        /\ CtcRows
        /\ Only592 => /\ ret.batch.labels = << <<5, 9, 2, pad_value, pad_value>> >>
                      /\ ret.batch.labels_seq_len = <<3>>

\* the hierarchical_ctc batch of the transcript 5 9 2 alone
C4_Witness ==
    /\ Returned /\ ~is_test /\ model_type = "hierarchical_ctc"
    /\ Only592
    /\ ret.batch.labels_seq_len_sub = <<4>>

\* C5: the inputs tensor a call allocates is RawDim * num_stack * splice wide,
\* the width of every transformed utterance
C5_InputsWidth ==
    (pc = "ready" /\ ret.width /= 0) => ret.width = RawDim * num_stack * splice

\* C6: the feature width a call works with is that of the current num_stack
\* and splice, whatever was cached before they were changed
C6_CachedWidthCurrent ==
    (pc = "ready" /\ ret.status /= "none" /\ input_size /= <<>>) =>
        input_size[1] = RawDim * num_stack * splice

\* C10: on an evaluation split a call that reaches the labels of its rows
\* stores every transcript and returns a batch
C10_EvalBatchReturned ==
    (pc = "ready" /\ is_test /\ ret.status = "raise") => ret.line \notin {119, 120}

Called == pc = "ready" /\ ret.status /= "none"

\* C11: for every model_type other than hierarchical_attention and
\* hierarchical_ctc, a call with a non-empty subset raises and returns no
\* batch, on a training split and on an evaluation split alike
C11_UnknownFamilyRaises ==
    (Called /\ data_indices /= <<>>
        /\ model_type \notin {"hierarchical_attention", "hierarchical_ctc"}) =>
        ret.status = "raise"

\* C12: a second call with the same subset, the dataset and its configuration
\* left alone in between, has the outcome of the first: the same inputs,
\* labels, labels_sub, length vectors and names, also when the first of the
\* two calls is the one that caches the feature width
C12_Idempotent == (pc = "ready" /\ prev /= NotCalled) => ret = prev

\* two calls with the same two ids, both returned, the first of them caching
\* the width
C12_Witness ==
    /\ pc = "ready" /\ prev.status = "ok" /\ ret.status = "ok"
    /\ cached = <<FALSE, TRUE>>
    /\ Len(data_indices) = 2

\* the utterance id has no token in one of its transcripts
ZeroTokens(id) ==
    IsNaN(manifest[id].transcript) \/ IsNaN(manifest[id].transcript_sub)

\* the feature file of the utterance id holds no frame
ZeroFrames(id) == manifest[id].feat_len = 0

\* C13: a subset with an utterance of zero tokens or of zero frames is
\* accepted: the call does not fail on the empty transcript, and in the batch
\* returned the row of an utterance of zero frames has length 0 and is all
\* zero, the row of an utterance of zero tokens holds no token
C13_ZeroLengthAccepted ==
    (Called /\ \E i \in BatchRows :
                   ZeroTokens(data_indices[i]) \/ ZeroFrames(data_indices[i])) =>
        /\ ret.status = "raise" => ret.line \notin {79, 81}
        /\ ret.status = "ok" =>
            \A i \in BatchRows :
                /\ ZeroFrames(data_indices[i]) =>
                    /\ ret.batch.inputs_seq_len[i] = 0
                    /\ \A t \in 1..Len(ret.batch.inputs[i]) :
                           \A f \in 1..Len(ret.batch.inputs[i][t]) :
                               ret.batch.inputs[i][t][f] = 0
                /\ IsNaN(manifest[data_indices[i]].transcript) =>
                    ret.batch.labels_seq_len[i] \in {0, 2}
                /\ IsNaN(manifest[data_indices[i]].transcript_sub) =>
                    ret.batch.labels_seq_len_sub[i] \in {0, 2}

\* C14: a call with the empty subset raises and returns no batch, whether the
\* feature width was cached by an earlier call or not
C14_EmptySubsetRaises ==
    (Called /\ data_indices = <<>>) =>
        (ret.status = "raise" /\ ret.batch = NoBatch)

\* a call with the empty subset that found the width cached, and raised
C14_Witness ==
    /\ Called /\ data_indices = <<>>
    /\ cached = <<TRUE>>
    /\ ret.status = "raise" /\ ret.error = "ValueError"

\* row and len are those the mode of the call derives from the transcript s
LabelOf(row, len, s, sos, eos) ==
    IF is_test THEN row[1] = IntOf(s)
    ELSE IF model_type = "hierarchical_attention" THEN Framed(row, len, s, sos, eos)
    ELSE Unframed(row, len, s)

\* C15: in a returned batch, position i of every output is derived from the
\* one utterance whose id is data_indices[i]: its features, their length,
\* its main and its sub-task transcript and the stem of its path, for every
\* order of the ids and every order of the index
C15_CoIndexed ==
    Returned =>
        \A i \in BatchRows :
            LET u == manifest[data_indices[i]]
                x == Transformed(u.input_path)
            IN  /\ ret.batch.input_names[i] = InputName(u.input_path)
                /\ ret.batch.inputs_seq_len[i] = x.n
                /\ \A t \in 1..x.n : ret.batch.inputs[i][t][1] = x.a[t][1]
                /\ LabelOf(ret.batch.labels[i], ret.batch.labels_seq_len[i],
                           u.transcript, sos_index, eos_index)
                /\ LabelOf(ret.batch.labels_sub[i], ret.batch.labels_seq_len_sub[i],
                           u.transcript_sub, sos_index_sub, eos_index_sub)

\* a returned batch of two rows whose ids fall, neither of them at the
\* position of the index that its id numbers
C15_Witness ==
    /\ Returned /\ Len(data_indices) = 2
    /\ data_indices[1] > data_indices[2]
    /\ \A i \in BatchRows : df[data_indices[i]].id /= data_indices[i]
    /\ ret.batch.input_names[1] /= ret.batch.input_names[2]

\* C16: a call of make_batch, returning or raising, leaves the manifest, the
\* records of the index, their order and the set of remaining ids as they
\* were, and writes the cached width only when none was cached
C16_CorpusUnchanged ==
    [][ret' /= NotCalled =>
          /\ corpus' = corpus
          /\ input_size /= <<>> => input_size' = input_size]_vars

\* a call that raised after the width was cached, the index still the sorted
\* rows of the manifest and every id still remaining
C16_Witness ==
    /\ Called /\ ret.status = "raise" /\ data_indices /= <<>>
    /\ cached = <<TRUE>>
    /\ df \in sort_values(Restrict(read_csv(manifest), data_type, label_type),
                          sort_utt, reverse)
    /\ rest = Index(df) /\ Cardinality(rest) = Len(manifest)

----------------------------------------------------------------------------
(* Properties of Dataset.__init__ *)

Built == pc = "ready"

Kept(k) == k \in Index(df)

TokenCount(k) == Len(Split(manifest[k].transcript, " "))

\* the rule of the filter for the manifest row k
Dropped(k) ==
    LET short == IF label_type = word_freq1_str THEN 3 ELSE 24
    IN  \/ TokenCount(k) <= short /\ manifest[k].frame_num >= 1000
        \/ manifest[k].frame_num > 1580

IsEvalSplit(dt) == IsSubstr(eval_str, dt) \/ IsSubstr(<<"t", "e", "s", "t">>, dt)

\* C8: for every evaluation or test split (eval*, test_clean, test_other) the
\* index holds every row of the manifest and is_test is set, so that
\* make_batch takes its evaluation branch
C8_EvalSplitsUnfiltered ==
    (Built /\ IsEvalSplit(data_type)) =>
        /\ is_test
        /\ \A k \in 1..Len(manifest) : Kept(k)

\* df holds the rows the filter leaves, each once and unchanged
SortPermutes ==
    /\ Len(df) = Len(Restrict(read_csv(manifest), data_type, label_type))
    /\ Index(df) = Index(Restrict(read_csv(manifest), data_type, label_type))
    /\ \A k \in 1..Len(df) :
        /\ df[k].frame_num = manifest[df[k].id].frame_num
        /\ df[k].input_path = manifest[df[k].id].input_path
        /\ df[k].transcript = manifest[df[k].id].transcript

\* df is ordered by the key the arguments select
SortOrdered ==
    \A a, b \in 1..Len(df) :
        a < b =>
            IF sort_utt
            THEN (IF reverse THEN df[a].frame_num >= df[b].frame_num
                  ELSE df[a].frame_num <= df[b].frame_num)
            ELSE ~StrLess(df[b].input_path, df[a].input_path)

SameKey(x, y) ==
    IF sort_utt THEN x.frame_num = y.frame_num ELSE x.input_path = y.input_path

\* rows of equal key stay in the order of the manifest
SortStable ==
    \A a, b \in 1..Len(df) :
        (a < b /\ SameKey(df[a], df[b])) => df[a].id < df[b].id

----------------------------------------------------------------------------
(* Properties of TransformerEncoder *)

\* the width of the features the encoder is constructed for
EncoderInput == enc_args.input_dim * enc_args.n_stacks * enc_args.n_splices

\* C17: for an encoder without CNN layers the bridge, when there is one,
\* takes d_model-wide input, forward returns a tensor whose last dimension is
\* output_dim, and with last_proj_dim = 0 that dimension is d_model
C17_DimsConsistent ==
    enc.status /= "none" =>
        LET out == forward(enc, EncoderInput)
        IN  /\ enc.bridge /= <<>> => enc.bridge[1].in_size = enc_args.d_model
            /\ out.status = "ok"
            /\ out.width = enc.output_dim
            /\ enc_args.last_proj_dim = 0 => out.width = enc_args.d_model

====
